---- MODULE Spec2Model ----
(***************************************************************************)
(* lexical_bool: LexicalBool::from_str and the two thread-local write-once *)
(* cells TRUE_VALUES / FALSE_VALUES (src/src/lib.rs).                      *)
(*                                                                         *)
(* A string is a sequence of one-character strings.  A OnceCell is a       *)
(* sequence of length 0 (empty) or 1 (holding its value).                  *)
(***************************************************************************)
EXTENDS Naturals, Sequences, FiniteSets

VARIABLES TRUE_VALUES,   \* thread -> OnceCell<Vec<String>>
          FALSE_VALUES,  \* thread -> OnceCell<Vec<String>>
          last,          \* the most recent call: thread, operation, argument, return value
          initialized,   \* history: thread -> the slots its own initialize_* call has set
          seen           \* history: one parse an observer noted (SpecObserve only)

vars == <<TRUE_VALUES, FALSE_VALUES, last, initialized, seen>>

(* ------------------------------ bounds -------------------------------- *)

\* number of threads, each with its own pair of thread-locals
NumThreads == 2

Threads == 1..NumThreads

(* ------------------------------ strings ------------------------------- *)

UPPER == <<"A","B","C","D","E","F","G","H","I","J","K","L","M",
           "N","O","P","Q","R","S","T","U","V","W","X","Y","Z">>

LOWER == <<"a","b","c","d","e","f","g","h","i","j","k","l","m",
           "n","o","p","q","r","s","t","u","v","w","x","y","z">>

\* the lower-case letter of each upper-case ASCII letter
ASCII_LOWER ==
    [c \in {UPPER[i] : i \in 1..Len(UPPER)} |->
        LOWER[CHOOSE i \in 1..Len(UPPER) : UPPER[i] = c]]

\* u8::to_ascii_lowercase: 'A'..='Z' map to 'a'..='z', every other byte is kept
to_ascii_lowercase_char(c) ==
    IF c \in DOMAIN ASCII_LOWER THEN ASCII_LOWER[c] ELSE c

\* a lower-casing that does nothing
to_ascii_lowercase_identity(s) == s

\* str::to_ascii_lowercase, as from_str calls it on its input
to_ascii_lowercase(s) == [i \in 1..Len(s) |-> to_ascii_lowercase_char(s[i])]

\* the two ASCII cases of a character (input generation only)
BothCases(c) ==
    {c} \cup {LOWER[i] : i \in {j \in 1..Len(UPPER) : UPPER[j] = c}}
        \cup {UPPER[i] : i \in {j \in 1..Len(LOWER) : LOWER[j] = c}}

\* every ASCII upper/lower-case permutation of the string w
RECURSIVE CaseVariants(_)
CaseVariants(w) ==
    IF w = <<>> THEN {<<>>}
    ELSE {<<c>> \o v : c \in BothCases(Head(w)), v \in CaseVariants(Tail(w))}

Range(list) == {list[i] : i \in 1..Len(list)}

(* ----------------------------- constants ------------------------------ *)

TRUTHY_VALUES == << <<"t","r","u","e">>, <<"t">>, <<"1">>, <<"y","e","s">> >>

FALSEY_VALUES == << <<"f","a","l","s","e">>, <<"f">>, <<"0">>, <<"n","o">> >>

(* ------------------------------ results ------------------------------- *)

NoInput == <<>>

\* the bool an initialize_* call returns
Bool(b) == [tag |-> "bool", val |-> b, input |-> NoInput]

\* Ok(LexicalBool(b))
Ok(b) == [tag |-> "Ok", val |-> b, input |-> NoInput]

\* Err(Error::InvalidInput(input))
Err(input) == [tag |-> "InvalidInput", val |-> FALSE, input |-> input]

\* an error that carries the lower-cased text
InvalidInput_lowered(s, e) == Err(e)

\* Err(Error::InvalidInput(s.to_string())): s is the input as given, e its lower-cased form
InvalidInput(s, e) == Err(s)

(* ------------------------------ OnceCell ------------------------------ *)

EmptyCell == <<>>

\* a set that overwrites and always reports success
OnceCell_set_overwrite(cell, value) == [cell |-> <<value>>, ok |-> TRUE]

\* OnceCell::set(value).is_ok(): stores value only into an empty cell
OnceCell_set(cell, value) ==
    IF cell = EmptyCell
    THEN [cell |-> <<value>>, ok |-> TRUE]
    ELSE [cell |-> cell, ok |-> FALSE]

\* a get_or_init that runs the initializer on every call
OnceCell_get_or_init_always(cell, value) == <<value>>

\* OnceCell::get_or_init(|| value): the cell afterwards
OnceCell_get_or_init(cell, value) ==
    IF cell = EmptyCell THEN <<value>> ELSE cell

\* a static shared by all threads
with_global(slot, t, cell) == [u \in DOMAIN slot |-> cell]

\* thread_local!: LocalKey::with reaches the calling thread's cell only
with(slot, t, cell) == [slot EXCEPT ![t] = cell]

\* .iter().any(|k| k == &e)
any(list, e) == \E i \in 1..Len(list) : list[i] = e

(* ------------------------------ from_str ------------------------------ *)

\* a from_str that reads the falsey cell without initializing it
from_str_no_lazy_false(tcell, fcell, s) ==
    LET e  == to_ascii_lowercase(s)
        tc == OnceCell_get_or_init(tcell, TRUTHY_VALUES)
    IN  IF any(tc[1], e)
        THEN [t |-> tc, f |-> fcell, ret |-> Ok(TRUE)]
        ELSE IF fcell # EmptyCell /\ any(fcell[1], e)
             THEN [t |-> tc, f |-> fcell, ret |-> Ok(FALSE)]
             ELSE [t |-> tc, f |-> fcell, ret |-> InvalidInput(s, e)]

\* a from_str that consults the falsey list before the truthy list
from_str_false_first(tcell, fcell, s) ==
    LET e  == to_ascii_lowercase(s)
        fc == OnceCell_get_or_init(fcell, FALSEY_VALUES)
    IN  IF any(fc[1], e)
        THEN [t |-> tcell, f |-> fc, ret |-> Ok(FALSE)]
        ELSE LET tc == OnceCell_get_or_init(tcell, TRUTHY_VALUES)
             IN  IF any(tc[1], e)
                 THEN [t |-> tc, f |-> fc, ret |-> Ok(TRUE)]
                 ELSE [t |-> tc, f |-> fc, ret |-> InvalidInput(s, e)]

\* LexicalBool::from_str on the calling thread's two cells:
\* the cells afterwards and the value returned
from_str(tcell, fcell, s) ==
    LET e  == to_ascii_lowercase(s)
        tc == OnceCell_get_or_init(tcell, TRUTHY_VALUES)
    IN  IF any(tc[1], e)
        THEN [t |-> tc, f |-> fcell, ret |-> Ok(TRUE)]
        ELSE LET fc == OnceCell_get_or_init(fcell, FALSEY_VALUES)
             IN  IF any(fc[1], e)
                 THEN [t |-> tc, f |-> fc, ret |-> Ok(FALSE)]
                 ELSE [t |-> tc, f |-> fc, ret |-> InvalidInput(s, e)]

(* ------------------------------- inputs ------------------------------- *)

yep == <<"y","e","p">>
YEP == <<"Y","E","P">>
no  == <<"n","o">>

\* the lists passed to initialize_true_values / initialize_false_values
ValueLists == { <<yep, YEP>>, <<YEP, no>> }

\* the strings parsed: the default tokens, the custom ones, and some that are neither
Inputs ==
    Range(TRUTHY_VALUES) \cup Range(FALSEY_VALUES)
        \cup { yep, YEP, <<"T","r","u","e">>, <<"m","a","y","b","e">>, <<>> }

\* every case permutation of every default token, and two strings that are none
DefaultInputs ==
    UNION {CaseVariants(w) : w \in Range(TRUTHY_VALUES) \cup Range(FALSEY_VALUES)}
        \cup { <<"m","a","y","b","e">>, <<>> }

(* ------------------------------- state -------------------------------- *)

NoCall == [thread |-> 0, op |-> "none", arg |-> NoInput, ret |-> Bool(FALSE)]

\* later: a call was made after the noted parse; falseUnset: the thread's falsey cell
\* was still empty when the noted parse returned
NotSeen == [thread |-> 0, arg |-> NoInput, ret |-> Bool(FALSE),
            later |-> FALSE, falseUnset |-> FALSE]

Init ==
    /\ TRUE_VALUES = [t \in Threads |-> EmptyCell]
    /\ FALSE_VALUES = [t \in Threads |-> EmptyCell]
    /\ last = NoCall
    /\ initialized = [t \in Threads |-> {}]
    /\ seen = NotSeen

(* ------------------------------ actions ------------------------------- *)

\* initialize_true_values(values) called in thread t
initialize_true_values(t, values) ==
    LET r == OnceCell_set(TRUE_VALUES[t], values)
    IN  /\ TRUE_VALUES' = with(TRUE_VALUES, t, r.cell)
        /\ last' = [thread |-> t, op |-> "initialize_true_values",
                    arg |-> NoInput, ret |-> Bool(r.ok)]
        /\ initialized' = [initialized EXCEPT ![t] = IF r.ok THEN @ \cup {"true"} ELSE @]
        /\ UNCHANGED FALSE_VALUES

\* initialize_false_values(values) called in thread t
initialize_false_values(t, values) ==
    LET r == OnceCell_set(FALSE_VALUES[t], values)
    IN  /\ FALSE_VALUES' = with(FALSE_VALUES, t, r.cell)
        /\ last' = [thread |-> t, op |-> "initialize_false_values",
                    arg |-> NoInput, ret |-> Bool(r.ok)]
        /\ initialized' = [initialized EXCEPT ![t] = IF r.ok THEN @ \cup {"false"} ELSE @]
        /\ UNCHANGED TRUE_VALUES

\* s.parse::<LexicalBool>() called in thread t
parse(t, s) ==
    LET r == from_str(TRUE_VALUES[t], FALSE_VALUES[t], s)
    IN  /\ TRUE_VALUES' = with(TRUE_VALUES, t, r.t)
        /\ FALSE_VALUES' = with(FALSE_VALUES, t, r.f)
        /\ last' = [thread |-> t, op |-> "parse", arg |-> s, ret |-> r.ret]
        /\ UNCHANGED initialized

\* the observer notes the call just made, if it is a parse, or keeps its earlier note
Observe ==
    \/ seen' = [seen EXCEPT !.later = (seen # NotSeen)]
    \/ /\ last'.op = "parse"
       /\ seen' = [thread |-> last'.thread, arg |-> last'.arg, ret |-> last'.ret,
                   later |-> FALSE,
                   falseUnset |-> (FALSE_VALUES'[last'.thread] = EmptyCell)]

InitTrue == \E t \in Threads, values \in ValueLists :
                initialize_true_values(t, values) /\ UNCHANGED seen

InitFalse == \E t \in Threads, values \in ValueLists :
                initialize_false_values(t, values) /\ UNCHANGED seen

Parse == \E t \in Threads, s \in Inputs : parse(t, s) /\ UNCHANGED seen

Next == InitTrue \/ InitFalse \/ Parse

\* every thread initializes and parses in any order
Spec == Init /\ [][Next]_vars

ParseDefault == \E t \in Threads, s \in DefaultInputs : parse(t, s) /\ UNCHANGED seen

NextDefaults == ParseDefault

\* threads that never customize a slot and parse any case permutation of the defaults
SpecDefaults == Init /\ [][NextDefaults]_vars

ObservedInitTrue == \E values \in ValueLists : initialize_true_values(1, values) /\ Observe

ObservedInitFalse == \E values \in ValueLists : initialize_false_values(1, values) /\ Observe

ObservedParse == \E s \in Inputs : parse(1, s) /\ Observe

NextObserve == ObservedInitTrue \/ ObservedInitFalse \/ ObservedParse

\* one thread's calls in any order, with an observer that notes one of its parses
SpecObserve == Init /\ [][NextObserve]_vars

(* ------------------------- reading the state -------------------------- *)

\* the thread that made the most recent call
caller == last.thread

\* the most recent call was a parse, and e is its input lower-cased
lowered == to_ascii_lowercase(last.arg)

\* the list a cell yields to from_str: its value, or the default when it is empty
ListOf(cell, default) == IF cell = EmptyCell THEN default ELSE cell[1]

\* some token of the list equals s up to ASCII case
MatchesAnyCase(list, s) ==
    \E i \in 1..Len(list) : to_ascii_lowercase(list[i]) = to_ascii_lowercase(s)

TruthyVariants == UNION {CaseVariants(w) : w \in Range(TRUTHY_VALUES)}

FalseyVariants == UNION {CaseVariants(w) : w \in Range(FALSEY_VALUES)}

(* ------------------------------- claims ------------------------------- *)

\* C1: in one thread, initialize_true_values (resp. initialize_false_values) returns
\* true exactly when that thread's truthy (resp. falsey) cell is empty at the moment
\* of the call, and false when it was set before, by an initialize call or by the
\* lazy default of a parse; what it returns is always a plain bool, never an error.
C1_InitReturnsWhetherUnset ==
    [][ /\ last'.op = "initialize_true_values"
            => last'.ret = Bool(TRUE_VALUES[last'.thread] = EmptyCell)
        /\ last'.op = "initialize_false_values"
            => last'.ret = Bool(FALSE_VALUES[last'.thread] = EmptyCell) ]_vars

\* C1 witness: an initialize_true_values call that lost against the lazy default
C1_Witness ==
    /\ last.op = "initialize_true_values"
    /\ last.ret = Bool(FALSE)
    /\ TRUE_VALUES[caller] = <<TRUTHY_VALUES>>

\* C2: once a cell of a thread holds a list, set by an initialize call or by the lazy
\* default, no call changes that list; an initialize call that returns false leaves
\* every cell as it was.
C2_WriteOnce ==
    [][ /\ \A t \in Threads :
              /\ TRUE_VALUES[t] # EmptyCell => TRUE_VALUES'[t] = TRUE_VALUES[t]
              /\ FALSE_VALUES[t] # EmptyCell => FALSE_VALUES'[t] = FALSE_VALUES[t]
        /\ ( /\ last'.op \in {"initialize_true_values", "initialize_false_values"}
             /\ last'.ret = Bool(FALSE) )
            => (TRUE_VALUES' = TRUE_VALUES /\ FALSE_VALUES' = FALSE_VALUES) ]_vars

\* C2 witness: an initialize_true_values call that lost against a custom list, in a
\* thread whose falsey cell holds a custom list too
C2_Witness ==
    /\ last.op = "initialize_true_values"
    /\ last.ret = Bool(FALSE)
    /\ TRUE_VALUES[caller] = << <<yep, YEP>> >>
    /\ FALSE_VALUES[caller] = << <<YEP, no>> >>

\* C3: in a thread that never customized a slot, every ASCII case permutation of a
\* default truthy token parses to Ok(true) and every case permutation of a default
\* falsey token parses to Ok(false).
C3_DefaultsAnyCase ==
    last.op = "parse" =>
        /\ last.arg \in TruthyVariants => last.ret = Ok(TRUE)
        /\ last.arg \in FalseyVariants => last.ret = Ok(FALSE)

\* C3 witness: "fAlSe" was parsed and gave Ok(false)
C3_Witness ==
    /\ last.op = "parse"
    /\ last.arg = <<"f","A","l","S","e">>
    /\ last.ret = Ok(FALSE)

C5_CustomTokensAnyCase ==
    last.op = "parse" =>
        /\ ( /\ "true" \in initialized[caller]
             /\ MatchesAnyCase(TRUE_VALUES[caller][1], last.arg) )
            => last.ret = Ok(TRUE)
        /\ ( /\ "false" \in initialized[caller]
             /\ MatchesAnyCase(FALSE_VALUES[caller][1], last.arg)
             /\ ~MatchesAnyCase(ListOf(TRUE_VALUES[caller], TRUTHY_VALUES), last.arg) )
            => last.ret = Ok(FALSE)

\* C6: after a parse in a thread that had called no initialize_*, both of its cells
\* hold the defaults; so an initialize_* call made in a thread whose truthy cell holds
\* the lazily installed default returns false.
C6_ParseInstallsBothDefaults ==
    /\ (last.op = "parse" /\ initialized[caller] = {})
        => ( /\ TRUE_VALUES[caller] = <<TRUTHY_VALUES>>
             /\ FALSE_VALUES[caller] = <<FALSEY_VALUES>> )
    /\ ( /\ last.op \in {"initialize_true_values", "initialize_false_values"}
         /\ TRUE_VALUES[caller] = <<TRUTHY_VALUES>> )
        => last.ret = Bool(FALSE)

\* C7 as claimed: with the truthy slot customized to any list and the falsey slot
\* never customized, every default falsey token parses to Ok(false); with only the
\* falsey slot customized, every default truthy token parses to Ok(true).
C7_OtherDefaultsKept ==
    last.op = "parse" =>
        /\ (initialized[caller] = {"true"} /\ last.arg \in Range(FALSEY_VALUES))
            => last.ret = Ok(FALSE)
        /\ (initialized[caller] = {"false"} /\ last.arg \in Range(TRUTHY_VALUES))
            => last.ret = Ok(TRUE)

\* C7, amended: with the truthy slot customized and the falsey slot never customized,
\* every default falsey token that is not itself a token of the custom truthy list
\* parses to Ok(false); with only the falsey slot customized, every default truthy
\* token parses to Ok(true); and an initialize call for one slot leaves every cell of
\* the other slot as it was.
C7_OtherDefaultsKeptUnlessTruthy ==
    /\ [](last.op = "parse" =>
            /\ ( /\ initialized[caller] = {"true"}
                 /\ last.arg \in Range(FALSEY_VALUES)
                 /\ ~any(TRUE_VALUES[caller][1], last.arg) )
                => last.ret = Ok(FALSE)
            /\ (initialized[caller] = {"false"} /\ last.arg \in Range(TRUTHY_VALUES))
                => last.ret = Ok(TRUE))
    /\ [][ /\ last'.op = "initialize_true_values" => FALSE_VALUES' = FALSE_VALUES
           /\ last'.op = "initialize_false_values" => TRUE_VALUES' = TRUE_VALUES ]_vars

\* C7 witness: truthy customized to ["YEP", "no"], falsey lazily defaulted, "false"
\* parsed to Ok(false)
C7_Witness ==
    /\ last.op = "parse"
    /\ initialized[caller] = {"true"}
    /\ TRUE_VALUES[caller] = << <<YEP, no>> >>
    /\ last.arg = <<"f","a","l","s","e">>
    /\ last.ret = Ok(FALSE)

\* C8: a call made in one thread changes no cell of another thread; a cell holds a
\* custom list only if its own thread's initialize call set it, so a token outside
\* the defaults parses to Ok(true) (resp. Ok(false)) only in a thread that configured
\* it itself; and an initialize call returns true whenever the caller's own cell is
\* empty, whatever the other threads have configured.
C8_ThreadsIsolated ==
    /\ [](/\ \A t \in Threads :
                /\ TRUE_VALUES[t] \notin {EmptyCell, <<TRUTHY_VALUES>>}
                    => "true" \in initialized[t]
                /\ FALSE_VALUES[t] \notin {EmptyCell, <<FALSEY_VALUES>>}
                    => "false" \in initialized[t]
          /\ (last.op = "parse" /\ last.ret = Ok(TRUE) /\ ~any(TRUTHY_VALUES, lowered))
                => "true" \in initialized[caller]
          /\ (last.op = "parse" /\ last.ret = Ok(FALSE) /\ ~any(FALSEY_VALUES, lowered))
                => "false" \in initialized[caller])
    /\ [][ /\ \A t \in Threads \ {last'.thread} :
                 TRUE_VALUES'[t] = TRUE_VALUES[t] /\ FALSE_VALUES'[t] = FALSE_VALUES[t]
           /\ (last'.op = "initialize_true_values" /\ TRUE_VALUES[last'.thread] = EmptyCell)
                 => last'.ret = Bool(TRUE)
           /\ (last'.op = "initialize_false_values" /\ FALSE_VALUES[last'.thread] = EmptyCell)
                 => last'.ret = Bool(TRUE) ]_vars

\* C8 witness: thread 1 configured "yep" as truthy, and thread 2, which configured
\* nothing, parsed "yep" and got InvalidInput
C8_Witness ==
    /\ "true" \in initialized[1]
    /\ any(TRUE_VALUES[1][1], yep)
    /\ caller = 2
    /\ last.op = "parse"
    /\ last.arg = yep
    /\ initialized[2] = {}
    /\ last.ret = Err(yep)

\* C9: once a parse of s has returned r in a thread, every later parse of s in that
\* thread returns r, whatever calls are made in between.
C9_ParseStable ==
    ( /\ seen.later
      /\ last.op = "parse"
      /\ caller = seen.thread
      /\ last.arg = seen.arg )
        => last.ret = seen.ret

\* C9 witness: the noted parse matched the truthy list while the falsey cell was
\* still empty, the falsey slot was customized afterwards, and the same input was
\* parsed again
C9_Witness ==
    /\ seen.later
    /\ seen.falseUnset
    /\ seen.ret = Ok(TRUE)
    /\ "false" \in initialized[seen.thread]
    /\ last.op = "parse"
    /\ caller = seen.thread
    /\ last.arg = seen.arg

====
